---- MODULE Spec2Model ----
(***************************************************************************)
(* A model of the Twitter content handler (src/unnamed/part_000): one call *)
(* of TwitterHandler.shouldPreHandle followed by one call of               *)
(* TwitterHandler.preHandle, with every awaited call (the three REST       *)
(* fetches and the puppeteer steps of getTweetIds) as one step whose       *)
(* outcome the environment chooses.                                        *)
(*                                                                         *)
(* The environment: a fetch either fails (a transport or HTTP error, which *)
(* axios throws) or answers with a response of the shape the interfaces    *)
(* Tweet / Tweets declare (lines 7-56).  The API's own identifier of a     *)
(* post (the `id` the endpoints return with every post) is kept in         *)
(* data.id.  created_at is kept as the epoch milliseconds that             *)
(* new Date(created_at).getTime() yields for the API's ISO timestamps.     *)
(* puppeteer's launch, newPage, goto and evaluate may each throw;          *)
(* browser.close() is the termination routine and is taken to complete.    *)
(***************************************************************************)
EXTENDS Integers, Sequences, FiniteSets, TLC

\* ------------------------------------------------------------ bounds
MaxId == 3          \* post identifiers are 1..MaxId
MaxUsers == 2       \* user identifiers are 1..MaxUsers; a side list holds at most MaxUsers users
MaxResults == 3     \* posts in one conversation-search response
MaxNodes == 2       \* <time> elements in the rendered page
MaxPad == 2         \* elements before and after the run of links of a long document
MaxCreations == 2   \* labels created while the modal is open

\* ------------------------------------------------------------ program constants
MAX_THREAD_DEPTH == 100
SevenDays == 7 * 24 * 60 * 60 * 1000

\* Date.now() at the routing decision, and the creation times around the boundary.
Now == 3 * SevenDays
Times == {Now - SevenDays - 1, Now - SevenDays, Now - SevenDays + 1}

Ids == 1..MaxId
UserIds == 1..MaxUsers
Undefined == 0      \* no identifier (match?.[2] of a URL that does not match)

\* ------------------------------------------------------------ helpers
Reverse(s) == [i \in 1..Len(s) |-> s[Len(s) + 1 - i]]

RECURSIVE SeqsUpTo(_, _)
\* All sequences over S of length at most n.
SeqsUpTo(S, n) ==
  IF n = 0 THEN {<<>>}
  ELSE LET shorter == SeqsUpTo(S, n - 1)
       IN  shorter \cup {Append(s, x) : s \in shorter, x \in S}

Distinct(s) == \A i, j \in 1..Len(s) : i # j => s[i] # s[j]

\* ------------------------------------------------------------ URLs
\* A URL as the parts TWITTER_URL_MATCH looks at: the host, the path segment
\* after the user name, and the segment after that (a digit string, kept as the
\* identifier it spells, or Undefined when it is not a digit string).
Urls ==
  {[host |-> "twitter.com", seg |-> "status", id |-> i] : i \in Ids}
  \cup {[host |-> "twitter.com", seg |-> "statuses", id |-> 1],
        [host |-> "twitter.com", seg |-> "photo", id |-> 1],
        [host |-> "twitter.com", seg |-> "status", id |-> Undefined],
        [host |-> "example.com", seg |-> "status", id |-> 1]}

UrlMatches(u) ==
  /\ u.host = "twitter.com"
  /\ u.seg \in {"status", "statuses"}
  /\ u.id # Undefined

tweetIdFromStatusUrl(u) == IF UrlMatches(u) THEN u.id ELSE Undefined

VARIABLES
  token,           \* TWITTER_BEARER_TOKEN is configured
  conv,            \* the service's posts: conv[i] is the conversation id of post i
  url,             \* the argument of shouldPreHandle / preHandle
  pc,              \* where the call is
  should,          \* what shouldPreHandle returned ("unknown" before the call)
  tweetId,         \* preHandle: const tweetId
  tweet,           \* preHandle: let tweet
  conversationId,  \* preHandle: const conversationId
  author,          \* preHandle: const author
  route,           \* which branch of the age test was taken
  browser,         \* the puppeteer browser: "none", "open", "closed"
  ret,             \* getTweetIds: the value its try/catch has settled on
  threw,           \* getTweetIds: the step that threw inside the try, or "none"
  tweetIds,        \* getOldTweets: const tweetIds
  response,        \* getOldTweets: const response (as received)
  thread,          \* getRecentTweets: the search response (as received)
  tweets,          \* preHandle: let tweets
  outcome,         \* preHandle: "running", "returned", "thrown"
  error,           \* the error preHandle threw
  log,             \* every network request and browser launch/close, in order
  rejected,        \* the error the last awaited fetch rejected with, or "none"
  fetched,         \* the response of the last getTweetById, as it was received
  content          \* the document returned, as the values put into its slots

\* The in-page scan of getTweetIds on its own, for documents of any length.
VARIABLES
  timeNodes,       \* scan: const timeNodes, the <time> elements of the document
  scanned,         \* scan: what the callback returned
  scanPc           \* scan: "off", "evaluate", "done"

scanVars == <<timeNodes, scanned, scanPc>>

\* The label modal (SetLabelsModal).
VARIABLES
  mounted,             \* the modal is open
  selectedLabels,      \* the state selectedLabels: the contents of its array
  availableLabels,     \* availableLabels.labels, the result of useGetLabelsQuery
  highlightLastLabel,  \* the state highlightLastLabel
  errorMessage,        \* the message last shown by showMessage
  pending,             \* the calls of createLabelAsync awaiting createLabelMutation
  created,             \* the labels createLabelMutation has created
  uuids,               \* the number of uuidv4() values drawn
  saved                \* the last call of props.save: its argument and its caller

labelVars ==
  <<mounted, selectedLabels, availableLabels, highlightLastLabel, errorMessage,
    pending, created, uuids, saved>>

handlerVars ==
  <<token, conv, url, pc, should, tweetId, tweet, conversationId, author, route,
    browser, ret, threw, tweetIds, response, thread, tweets, outcome, error, log,
    rejected, fetched, content>>

vars == <<handlerVars, scanVars, labelVars>>

\* ------------------------------------------------------------ records
\* Texts are sequences of characters.  The display name of user i is "n" and
\* i - 1 times "&", the text of post i is "t" and i - 1 times "<"; a handle is
\* made of letters, digits and underscores.
Name(i) == [k \in 1..i |-> IF k = 1 THEN "n" ELSE "&"]
Username(i) == [k \in 1..i |-> IF k = 1 THEN "u" ELSE "_"]
Text(i) == [k \in 1..i |-> IF k = 1 THEN "t" ELSE "<"]
ProfileImage(i) == [user |-> i, size |-> "_normal"]

User(i) ==
  [id |-> i, name |-> Name(i), username |-> Username(i),
   profile_image_url |-> ProfileImage(i)]
TweetData(i, c, t, a) ==
  [id |-> i, conversation_id |-> c, created_at |-> t, author_id |-> a,
   text |-> Text(i)]

NoUser == User(Undefined)
NoTweet == [data |-> TweetData(Undefined, Undefined, 0, Undefined),
            includes |-> [users |-> <<>>]]
NoContent ==
  [title |-> <<>>, authorImage |-> ProfileImage(Undefined), description |-> <<>>,
   tweetsContent |-> <<>>, tweetUrl |-> [username |-> <<>>, name |-> <<>>]]
NoTweets == [data |-> <<>>, includes |-> [users |-> <<>>],
             meta |-> [result_count |-> 0]]

\* The side lists of authors a response may carry: the distinct users, in any order.
UserLists ==
  {[i \in 1..Len(s) |-> User(s[i])] :
     s \in {q \in SeqsUpTo(UserIds, MaxUsers) : Len(q) >= 1 /\ Distinct(q)}}

\* The conversations the service may hold: a conversation id names the
\* conversation's root, whose conversation id is its own id.
Worlds == {f \in [Ids -> Ids] : \A i \in Ids : f[f[i]] = f[i]}

\* What GET /2/tweets/:id may answer for post i.
SingleResponses(i) ==
  {[data |-> TweetData(i, conv[i], t, a), includes |-> [users |-> us]] :
     t \in Times, a \in UserIds, us \in UserLists}

\* A post of a list response.  The handler reads neither created_at nor author_id
\* of the posts of a list response, so one value of each stands for all.
ListPost(i) == TweetData(i, conv[i], Now - SevenDays - 1, 1)

ListResponse(ids) ==
  [data |-> [k \in 1..Len(ids) |-> ListPost(ids[k])],
   includes |-> [users |-> <<User(1)>>],
   meta |-> [result_count |-> Len(ids)]]

\* What GET /2/tweets/search/recent?query=conversation_id:c may answer: distinct
\* posts of conversation c, newest first, any of them.
SearchResponses(c) ==
  {ListResponse(s) :
     s \in {q \in SeqsUpTo({i \in Ids : conv[i] = c}, MaxResults) : Distinct(q)}}

RECURSIVE Dedup(_)
\* s without the later occurrences of an element.
Dedup(s) ==
  IF s = <<>> THEN <<>>
  ELSE LET front == Dedup(SubSeq(s, 1, Len(s) - 1))
           last == s[Len(s)]
       IN  IF \E k \in 1..Len(front) : front[k] = last THEN front
           ELSE Append(front, last)

\* What GET /2/tweets?ids=... may answer: the posts asked for, each once, in the
\* order asked.
BatchResponses(ids) == {ListResponse(Dedup(ids))}

\* ------------------------------------------------------------ the three fetches
\* An entry of the log.
Event(op, ids) == [op |-> op, ids |-> ids]

\* What a call of a fetch function does: the requests it issued, then either the
\* response it returned or the error it threw.
Returned(reqs, res) ==
  [requests |-> reqs, status |-> "ok", error |-> "none", data |-> res]
Threw(reqs, err, nothing) ==
  [requests |-> reqs, status |-> "throw", error |-> err, data |-> nothing]

\* The error of a missing credential.
NoTokenError == "No Twitter bearer token found"

\* getTweetThread: the credential check, then the conversation search.
getTweetThread(c) ==
  IF ~token THEN {Threw(<<>>, NoTokenError, NoTweets)}
  ELSE LET req == <<Event("search", <<c>>)>>
       IN  {Threw(req, "http", NoTweets)}
           \cup {Returned(req, r) : r \in SearchResponses(c)}

\* getTweetById with the credential check forgotten.
getTweetById_NoCheck(i) ==
  LET req == <<Event("single", <<i>>)>>
  IN  {Threw(req, "http", NoTweet)}
      \cup {Returned(req, r) : r \in SingleResponses(i)}

\* getTweetById: the credential check, then the single-post request.
getTweetById(i) ==
  IF ~token THEN {Threw(<<>>, NoTokenError, NoTweet)}
  ELSE LET req == <<Event("single", <<i>>)>>
       IN  {Threw(req, "http", NoTweet)}
           \cup {Returned(req, r) : r \in SingleResponses(i)}

\* getTweetsByIds: the credential check, then the batch request.
getTweetsByIds(ids) ==
  IF ~token THEN {Threw(<<>>, NoTokenError, NoTweets)}
  ELSE LET req == <<Event("batch", ids)>>
       IN  {Threw(req, "http", NoTweets)}
           \cup {Returned(req, r) : r \in BatchResponses(ids)}

\* getTweetsFromResponse: one Tweet per post of the response, in the response's
\* order, each sharing the response's list of users.
getTweetsFromResponse(res) ==
  [k \in 1..Len(res.data) |->
     [data |-> res.data[k],
      includes |-> [users |-> res.includes.users]]]

\* getRecentTweets with the reversal forgotten.
getRecentTweets_NoReverse(res) ==
  IF res.meta.result_count = 0 THEN <<>>
  ELSE getTweetsFromResponse(res)

\* getRecentTweets, after its awaited getTweetThread answered with `res`.
getRecentTweets(res) ==
  IF res.meta.result_count = 0 THEN <<>>
  ELSE Reverse(getTweetsFromResponse(res))

\* ------------------------------------------------------------ the in-page scan
\* A <time> element as the scan sees it: the tag of its parent element ("none"
\* when it has no parent) and the parent's href attribute split at "/", an empty
\* segment kept as Undefined; <<>> is a missing or empty href.
NoHref == <<>>
Hrefs ==
  {NoHref, <<Undefined, 1, Undefined>>} \cup {<<Undefined, i>> : i \in Ids}
TimeNodes ==
  {[parent |-> "none", href |-> NoHref], [parent |-> "SPAN", href |-> NoHref]}
  \cup {[parent |-> "A", href |-> h] : h \in Hrefs}
Doms == SeqsUpTo(TimeNodes, MaxNodes)

\* One pass of the loop body: what it pushes for one <time> element.
ScanNode(node) ==
  IF node.parent = "none" THEN <<>>
  ELSE IF node.parent = "SPAN" THEN <<>>
  ELSE IF node.href = NoHref THEN <<>>
  ELSE LET id == Reverse(node.href)[1]
       IN  IF id = Undefined THEN <<>> ELSE <<id>>

RECURSIVE ScanFrom(_, _, _)
\* The loop of the scan over the indices from..to (1-based): the pushes of the
\* passes in index order, computed by halving the range.
ScanFrom(nodes, from, to) ==
  IF from > to THEN <<>>
  ELSE IF from = to THEN ScanNode(nodes[from])
  ELSE LET mid == (from + to) \div 2
       IN  ScanFrom(nodes, from, mid) \o ScanFrom(nodes, mid + 1, to)

\* The element is wrapped in a link whose href ends in a non-empty segment.
IsLink(node) ==
  /\ node.parent = "A"
  /\ node.href # NoHref
  /\ node.href[Len(node.href)] # Undefined

\* The trailing segments of the links among the elements, in document order.
LinkIds(nodes) ==
  LET links == SelectSeq(nodes, IsLink)
  IN  [k \in 1..Len(links) |-> links[k].href[Len(links[k].href)]]

Min(a, b) == IF a <= b THEN a ELSE b

\* ScanIds with the cap put on the identifiers collected, not on the elements
\* looked at.
ScanIds_CapOnIds(nodes) ==
  SubSeq(LinkIds(nodes), 1, Min(Len(LinkIds(nodes)), MAX_THREAD_DEPTH))

\* What page.evaluate returns for the rendered document: the loop runs while
\* i < timeNodes.length && i < MAX_THREAD_DEPTH.
ScanIds(nodes) == ScanFrom(nodes, 1, Min(Len(nodes), MAX_THREAD_DEPTH))

\* Long documents: `lead` elements in a span, then `links` elements each in a link
\* to its own position, then `gap` elements in a span, then `more` such links.
LongDom(lead, links, gap, more) ==
  [p \in 1..(lead + links + gap + more) |->
     IF p <= lead \/ (p > lead + links /\ p <= lead + links + gap)
       THEN [parent |-> "SPAN", href |-> NoHref]
       ELSE [parent |-> "A", href |-> <<Undefined, p>>]]

LongDoms ==
  {LongDom(lead, links, gap, more) :
     lead \in 0..MaxPad,
     links \in {MAX_THREAD_DEPTH - 1, MAX_THREAD_DEPTH, MAX_THREAD_DEPTH + 1},
     gap \in 0..1,
     more \in 0..MaxPad}

\* ------------------------------------------------------------ the age test
\* The age test with <= for <.
IsOlder_Inclusive(created_at) == created_at <= Now - SevenDays

\* new Date(tweet.data.created_at).getTime() < Date.now() - 7 * 24 * 60 * 60 * 1000
IsOlder(created_at) == created_at < Now - SevenDays

\* ------------------------------------------------------------ shouldPreHandle
shouldPreHandle(u) == token /\ UrlMatches(u)

\* ------------------------------------------------------------ preHandle
\* filterUsers with the comparison u.id === authorId for the assignment.
filterUsers_Equality(users, authorId) ==
  [users |-> users,
   kept |-> SelectSeq(users, LAMBDA u : u.id = authorId)]

\* tweet.includes.users.filter((u) => (u.id = authorId)): the callback assigns
\* authorId to the id of every user it visits and keeps the user when the
\* assigned value is truthy.  `users` is the list after the call, `kept` the
\* filter's result.
filterUsers(users, authorId) ==
  LET assigned == [k \in 1..Len(users) |-> [users[k] EXCEPT !.id = authorId]]
  IN  [users |-> assigned,
       kept |-> SelectSeq(assigned, LAMBDA u : u.id # Undefined)]

\* _.escape of underscore: "&", "<", ">", '"' and "'" become their HTML
\* entities (so does the backquote, which no text here holds).
escapeChar(c) ==
  IF c = "&" THEN <<"&", "a", "m", "p", ";">>
  ELSE IF c = "<" THEN <<"&", "l", "t", ";">>
  ELSE IF c = ">" THEN <<"&", "g", "t", ";">>
  ELSE IF c = "\"" THEN <<"&", "q", "u", "o", "t", ";">>
  ELSE IF c = "'" THEN <<"&", "#", "x", "2", "7", ";">>
  ELSE <<c>>

RECURSIVE escape(_)
escape(str) ==
  IF str = <<>> THEN <<>> ELSE escapeChar(Head(str)) \o escape(Tail(str))

\* `${author.name} on Twitter`
titleForAuthor(a) == a.name \o <<" ", "o", "n", " ", "T", "w", "i", "t", "t", "e", "r">>

\* author.profile_image_url.replace('_normal', '_400x400')
authorImage(a) ==
  IF a.profile_image_url.size = "_normal"
    THEN [a.profile_image_url EXCEPT !.size = "_400x400"]
    ELSE a.profile_image_url

\* The slots of the document: the title and the description are escaped, the
\* text of each post and the handle and the name of the attribution line are
\* interpolated as they are.  The posts carry no url entities and no media.
document(a, root, ts) ==
  [title |-> escape(titleForAuthor(a)),
   authorImage |-> authorImage(a),
   description |-> escape(root.data.text),
   tweetsContent |-> [k \in 1..Len(ts) |-> ts[k].data.text],
   tweetUrl |-> [username |-> a.username, name |-> a.name]]

\* recentTweets with nothing put before the search result.
recentTweets_NoRoot(root, recent) == recent

\* [tweet, ...(await getRecentTweets(conversationId))]
recentTweets(root, recent) == <<root>> \o recent

\* isReply that never asks for the referenced post.
isReply_Never(c, t) == FALSE

\* if (conversationId !== tweetId): the post is a reply.
isReply(c, t) == c # t

\* finallyBlock with the call of close forgotten.
finallyBlock_NoClose(b, l) == [browser |-> b, log |-> l]

\* finallyBlock with close called a second time.
finallyBlock_Twice(b, l) ==
  [browser |-> "closed",
   log |-> l \o <<[op |-> "close", ids |-> <<>>], [op |-> "close", ids |-> <<>>]>>]

\* The `finally` block of getTweetIds: await browser.close().  b is the browser
\* and l the log before it; the result is both after it.
finallyBlock(b, l) ==
  [browser |-> "closed", log |-> Append(l, [op |-> "close", ids |-> <<>>])]

\* caughtResult that falls back to the identifier of the page it was given.
caughtResult_Root == <<conversationId>>

\* The `catch` block of getTweetIds: return [].
caughtResult == <<>>

\* No scan on its own is under way.
ScanOff ==
  /\ timeNodes = <<>>
  /\ scanned = <<>>
  /\ scanPc = "off"

\* No modal is mounted.
LabelsOff ==
  /\ mounted = FALSE
  /\ selectedLabels = <<>>
  /\ availableLabels = <<>>
  /\ highlightLastLabel = FALSE
  /\ errorMessage = "none"
  /\ pending = {}
  /\ created = {}
  /\ uuids = 0
  /\ saved = [labels |-> <<>>, by |-> "none"]

\* The locals of a call of preHandle before the call.
Locals ==
  /\ should = "unknown"
  /\ tweetId = Undefined
  /\ tweet = NoTweet
  /\ conversationId = Undefined
  /\ author = NoUser
  /\ route = "none"
  /\ browser = "none"
  /\ ret = <<>>
  /\ threw = "none"
  /\ tweetIds = <<>>
  /\ response = NoTweets
  /\ thread = NoTweets
  /\ tweets = <<>>
  /\ outcome = "idle"
  /\ error = "none"
  /\ log = <<>>
  /\ rejected = "none"
  /\ fetched = NoTweet
  /\ content = NoContent

\* No call of the handler is under way.
HandlerOff ==
  /\ token = FALSE
  /\ conv = [i \in Ids |-> i]
  /\ url = [host |-> "example.com", seg |-> "status", id |-> 1]
  /\ pc = "off"
  /\ Locals

Init ==
  /\ token \in BOOLEAN
  /\ conv \in Worlds
  /\ url \in Urls
  /\ pc = "shouldPreHandle"
  /\ ScanOff
  /\ LabelsOff
  /\ Locals

\* Throw that wraps the error in one of its own.
Throw_Wrapped(e) ==
  /\ pc' = "done"
  /\ outcome' = "thrown"
  /\ error' = "could not resolve the tweet"

\* preHandle rejects with error e.
Throw(e) ==
  /\ pc' = "done"
  /\ outcome' = "thrown"
  /\ error' = e

\* shouldPreHandle(url)
ShouldPreHandle ==
  /\ pc = "shouldPreHandle"
  /\ should' = IF shouldPreHandle(url) THEN "true" ELSE "false"
  /\ pc' = "preHandle"
  /\ UNCHANGED <<scanVars, labelVars, content, token, conv, url, rejected, fetched, tweetId, tweet, conversationId, author, route,
                 browser, ret, threw, tweetIds, response, thread, tweets, outcome, error, log>>

\* preHandle(url), up to its first await: the identifier of the URL.
PreHandle ==
  /\ pc = "preHandle"
  /\ tweetId' = tweetIdFromStatusUrl(url)
  /\ IF tweetId' = Undefined
       THEN Throw("could not find tweet id in url")
       ELSE pc' = "getTweetById" /\ outcome' = "running" /\ UNCHANGED error
  /\ UNCHANGED <<scanVars, labelVars, content, token, conv, url, rejected, fetched, should, tweet, conversationId, author, route,
                 browser, ret, threw, tweetIds, response, thread, tweets, log>>

\* let tweet = await getTweetById(tweetId), and the test of its conversation id.
FetchTweet ==
  /\ pc = "getTweetById"
  /\ \E r \in getTweetById(tweetId) :
       /\ log' = log \o r.requests
       /\ rejected' = r.error
       /\ IF r.status = "throw"
            THEN Throw(r.error) /\ UNCHANGED <<tweet, fetched, conversationId>>
            ELSE /\ tweet' = r.data
                 /\ fetched' = r.data
                 /\ conversationId' = r.data.data.conversation_id
                 /\ pc' = IF isReply(conversationId', tweetId) THEN "refetch" ELSE "author"
                 /\ UNCHANGED <<outcome, error>>
  /\ UNCHANGED <<scanVars, labelVars, content, token, conv, url, should, tweetId, author, route, browser, ret,
                 threw, tweetIds, response, thread, tweets>>

\* tweet = await getTweetById(conversationId)
Refetch ==
  /\ pc = "refetch"
  /\ \E r \in getTweetById(conversationId) :
       /\ log' = log \o r.requests
       /\ rejected' = r.error
       /\ IF r.status = "throw"
            THEN Throw(r.error) /\ UNCHANGED <<tweet, fetched>>
            ELSE /\ tweet' = r.data
                 /\ fetched' = r.data
                 /\ pc' = "author"
                 /\ UNCHANGED <<outcome, error>>
  /\ UNCHANGED <<scanVars, labelVars, content, token, conv, url, should, tweetId, conversationId, author, route,
                 browser, ret, threw, tweetIds, response, thread, tweets>>

\* const author = tweet.includes.users.filter(...)[0], and the title built from it
\* (author.name of an undefined author is a TypeError).
AuthorLookup ==
  /\ pc = "author"
  /\ LET f == filterUsers(tweet.includes.users, tweet.data.author_id)
     IN  /\ tweet' = [tweet EXCEPT !.includes.users = f.users]
         /\ IF f.kept = <<>>
              THEN Throw("TypeError") /\ UNCHANGED author
              ELSE author' = f.kept[1] /\ pc' = "route" /\ UNCHANGED <<outcome, error>>
  /\ UNCHANGED <<scanVars, labelVars, content, token, conv, url, rejected, fetched, should, tweetId, conversationId, route, browser,
                 ret, threw, tweetIds, response, thread, tweets, log>>

\* The age test: getOldTweets (up to its await of puppeteer.launch) or
\* getRecentTweets (up to its await of getTweetThread).
Route ==
  /\ pc = "route"
  /\ IF IsOlder(tweet.data.created_at)
       THEN route' = "stale" /\ pc' = "launch"
       ELSE route' = "recent" /\ pc' = "getTweetThread"
  /\ UNCHANGED <<scanVars, labelVars, content, token, conv, url, rejected, fetched, should, tweetId, tweet, conversationId, author,
                 browser, ret, threw, tweetIds, response, thread, tweets, outcome, error, log>>

\* getTweetIds: const browser = await puppeteer.launch(...), outside the try.
Launch ==
  /\ pc = "launch"
  /\ \/ /\ browser' = "open"
        /\ log' = Append(log, Event("launch", <<>>))
        /\ pc' = "newPage"
        /\ UNCHANGED <<outcome, error>>
     \/ /\ Throw("launch")
        /\ UNCHANGED <<browser, log>>
  /\ UNCHANGED <<scanVars, labelVars, content, token, conv, url, rejected, fetched, should, tweetId, tweet, conversationId, author,
                 route, ret, threw, tweetIds, response, thread, tweets>>

\* A step of the try block throws: control goes to the catch block.
ThrowInTry(step) ==
  /\ threw' = step
  /\ pc' = "catch"
  /\ UNCHANGED ret

\* const page = await browser.newPage()
NewPage ==
  /\ pc = "newPage"
  /\ \/ pc' = "goto" /\ UNCHANGED <<threw, ret>>
     \/ ThrowInTry("newPage")
  /\ UNCHANGED <<scanVars, labelVars, content, token, conv, url, rejected, fetched, should, tweetId, tweet, conversationId, author,
                 route, browser, tweetIds, response, thread, tweets, outcome, error, log>>

\* await page.goto(pageURL, ...); await waitFor(4000)
Goto ==
  /\ pc = "goto"
  /\ \/ pc' = "evaluate" /\ UNCHANGED <<threw, ret>>
     \/ ThrowInTry("goto")
  /\ UNCHANGED <<scanVars, labelVars, content, token, conv, url, rejected, fetched, should, tweetId, tweet, conversationId, author,
                 route, browser, tweetIds, response, thread, tweets, outcome, error, log>>

\* return await page.evaluate(...): the scan of the rendered document.
Evaluate ==
  /\ pc = "evaluate"
  /\ \/ \E dom \in Doms :
          /\ ret' = ScanIds(dom)
          /\ pc' = "finally"
          /\ UNCHANGED threw
     \/ ThrowInTry("evaluate")
  /\ UNCHANGED <<scanVars, labelVars, content, token, conv, url, rejected, fetched, should, tweetId, tweet, conversationId, author,
                 route, browser, tweetIds, response, thread, tweets, outcome, error, log>>

\* Catch that answers a failed scan by trying the conversation search.
Catch_TrySearch ==
  /\ pc = "catch"
  /\ ret' = caughtResult
  /\ pc' = "getTweetThread"
  /\ UNCHANGED <<scanVars, labelVars, content, token, conv, url, rejected, fetched, should, tweetId, tweet, conversationId, author,
                 route, browser, threw, tweetIds, response, thread, tweets, outcome, error, log>>

\* catch (error) { console.log(error); return [] }
Catch ==
  /\ pc = "catch"
  /\ ret' = caughtResult
  /\ pc' = "finally"
  /\ UNCHANGED <<scanVars, labelVars, content, token, conv, url, rejected, fetched, should, tweetId, tweet, conversationId, author,
                 route, browser, threw, tweetIds, response, thread, tweets, outcome, error, log>>

\* finally { await browser.close() }, then getTweetIds returns to getOldTweets.
Finally ==
  /\ pc = "finally"
  /\ browser' = finallyBlock(browser, log).browser
  /\ log' = finallyBlock(browser, log).log
  /\ tweetIds' = ret
  /\ pc' = "getTweetsByIds"
  /\ UNCHANGED <<scanVars, labelVars, content, token, conv, url, rejected, fetched, should, tweetId, tweet, conversationId, author,
                 route, ret, threw, response, thread, tweets, outcome, error>>

\* getOldTweets: const response = await getTweetsByIds(tweetIds);
\* return getTweetsFromResponse(response)
FetchBatch ==
  /\ pc = "getTweetsByIds"
  /\ \E r \in getTweetsByIds(tweetIds) :
       /\ log' = log \o r.requests
       /\ rejected' = r.error
       /\ IF r.status = "throw"
            THEN Throw(r.error) /\ UNCHANGED <<response, tweets>>
            ELSE /\ response' = r.data
                 /\ tweets' = getTweetsFromResponse(r.data)
                 /\ pc' = "render"
                 /\ UNCHANGED <<outcome, error>>
  /\ UNCHANGED <<scanVars, labelVars, content, token, conv, url, fetched, should, tweetId, tweet, conversationId, author,
                 route, browser, ret, threw, tweetIds, thread>>

\* getRecentTweets: const thread = await getTweetThread(conversationId), and the
\* list preHandle builds from what it returns.
FetchThread ==
  /\ pc = "getTweetThread"
  /\ \E r \in getTweetThread(conversationId) :
       /\ log' = log \o r.requests
       /\ rejected' = r.error
       /\ IF r.status = "throw"
            THEN Throw(r.error) /\ UNCHANGED <<thread, tweets>>
            ELSE /\ thread' = r.data
                 /\ tweets' = recentTweets(tweet, getRecentTweets(r.data))
                 /\ pc' = "render"
                 /\ UNCHANGED <<outcome, error>>
  /\ UNCHANGED <<scanVars, labelVars, content, token, conv, url, fetched, should, tweetId, tweet, conversationId, author,
                 route, browser, ret, threw, tweetIds, response>>

\* The document is built from tweets and author; return { content, url, title }.
Render ==
  /\ pc = "render"
  /\ pc' = "done"
  /\ outcome' = "returned"
  /\ content' = document(author, tweet, tweets)
  /\ UNCHANGED <<scanVars, labelVars, token, conv, url, rejected, fetched, should, tweetId, tweet, conversationId, author,
                 route, browser, ret, threw, tweetIds, response, thread, tweets, error, log>>

\* The scan on its own: the callback of page.evaluate on a document.
InitScan ==
  /\ HandlerOff
  /\ LabelsOff
  /\ timeNodes \in Doms \cup LongDoms
  /\ scanned = <<>>
  /\ scanPc = "evaluate"

ScanDocument ==
  /\ scanPc = "evaluate"
  /\ scanned' = ScanIds(timeNodes)
  /\ scanPc' = "done"
  /\ UNCHANGED <<timeNodes, handlerVars, labelVars>>

SpecScan == InitScan /\ [][ScanDocument]_vars

\* ------------------------------------------------------------ the label modal
\* Names are sequences of characters.
lowerChar(c) == IF c = "F" THEN "f" ELSE IF c = "B" THEN "b" ELSE c
toLowerCase(str) == [k \in 1..Len(str) |-> lowerChar(str[k])]

\* What the user may type into the input.
Values == {<<>>, <<"F">>, <<"b">>, <<"n">>, <<"m">>}

\* A label of the library, a temporary label, and the label made from it.
Label(n, name) == [id |-> [kind |-> "label", n |-> n], name |-> name, temporary |-> FALSE]
TempLabel(n, name) == [id |-> [kind |-> "uuid", n |-> n], name |-> name, temporary |-> TRUE]
NewLabel(tempLabel) ==
  [id |-> [kind |-> "created", n |-> tempLabel.id.n], name |-> tempLabel.name,
   temporary |-> FALSE]

\* The labels of the library when the modal opens.
LibraryLabels == <<Label(1, <<"f">>), Label(2, <<"b">>)>>

\* !!labels.find((l) => '_temporary' in l)
containsTemporaryLabel(labels) == \E k \in 1..Len(labels) : labels[k].temporary

\* labels.findIndex((l) => l.name.toLowerCase() == lowerCasedValue), 1-based, 0
\* for no match.
findByName(labels, lowerCasedValue) ==
  IF \E k \in 1..Len(labels) : toLowerCase(labels[k].name) = lowerCasedValue
    THEN CHOOSE k \in 1..Len(labels) :
           /\ toLowerCase(labels[k].name) = lowerCasedValue
           /\ \A j \in 1..(k - 1) : toLowerCase(labels[j].name) # lowerCasedValue
    ELSE 0

\* labels.findIndex((l) => l.id === id), 1-based, 0 for no match.
findIndex(labels, id) ==
  IF \E k \in 1..Len(labels) : labels[k].id = id
    THEN CHOOSE k \in 1..Len(labels) :
           labels[k].id = id /\ \A j \in 1..(k - 1) : labels[j].id # id
    ELSE 0

\* labels.pop() and labels.splice(idx, 1): the array after the call.
pop(labels) == IF labels = <<>> THEN <<>> ELSE SubSeq(labels, 1, Len(labels) - 1)
splice(labels, idx) == SubSeq(labels, 1, idx - 1) \o SubSeq(labels, idx + 1, Len(labels))

\* setSelectedLabels with a new array, and the effect that follows the render:
\* props.save(selectedLabels) unless the selection holds a temporary label.
setSelectedLabels(labels) ==
  /\ selectedLabels' = labels
  /\ saved' = IF containsTemporaryLabel(labels)
                THEN saved
                ELSE [labels |-> labels, by |-> "effect"]

\* A call of createLabelAsync holds the array newLabels it was given.  `isState`
\* tells whether that array is the very array of the state selectedLabels; a new
\* array in the state ends that.
Detached(calls) == {[c EXCEPT !.isState = FALSE] : c \in calls}

\* The modal opens on the labels of the provider; the save effect runs on mount.
InitLabels ==
  /\ HandlerOff
  /\ ScanOff
  /\ mounted = TRUE
  /\ availableLabels = LibraryLabels
  /\ selectedLabels \in {<<>>, <<LibraryLabels[1]>>, <<LibraryLabels[2]>>, LibraryLabels}
  /\ highlightLastLabel = FALSE
  /\ errorMessage = "none"
  /\ pending = {}
  /\ created = {}
  /\ uuids = 0
  /\ saved = [labels |-> selectedLabels, by |-> "effect"]

\* selectOrCreateLabel(value)
SelectOrCreateLabel ==
  /\ mounted
  /\ \E value \in Values :
       LET current == selectedLabels
           lowerCasedValue == toLowerCase(value)
           existing == findByName(availableLabels, lowerCasedValue)
       IN  IF Len(lowerCasedValue) < 1
             THEN UNCHANGED labelVars
           ELSE IF existing # 0
             THEN IF findByName(selectedLabels, lowerCasedValue) = 0
                    THEN /\ setSelectedLabels(Append(current, availableLabels[existing]))
                         /\ pending' = Detached(pending)
                         /\ highlightLastLabel' = FALSE
                         /\ UNCHANGED <<mounted, availableLabels, errorMessage,
                                        created, uuids>>
                    ELSE /\ errorMessage' = "already added"
                         /\ UNCHANGED <<mounted, selectedLabels, availableLabels,
                                        highlightLastLabel, pending, created, uuids,
                                        saved>>
           ELSE /\ uuids < MaxCreations
                /\ LET tempLabel == TempLabel(uuids + 1, value)
                       newLabels == Append(current, tempLabel)
                   IN  /\ setSelectedLabels(newLabels)
                       /\ pending' = Detached(pending) \cup
                            {[tempLabel |-> tempLabel, newLabels |-> newLabels,
                              isState |-> TRUE]}
                /\ uuids' = uuids + 1
                /\ highlightLastLabel' = FALSE
                /\ UNCHANGED <<mounted, availableLabels, errorMessage, created>>
  /\ UNCHANGED <<handlerVars, scanVars>>

\* deleteLastLabel(): the pop is done on the array of the state itself.
DeleteLastLabel ==
  /\ mounted
  /\ IF highlightLastLabel
       THEN /\ setSelectedLabels(pop(selectedLabels))
            /\ pending' =
                 Detached({[c EXCEPT !.newLabels = IF c.isState THEN pop(@) ELSE @] :
                             c \in pending})
            /\ highlightLastLabel' = FALSE
       ELSE /\ highlightLastLabel' = TRUE
            /\ UNCHANGED <<selectedLabels, pending, saved>>
  /\ UNCHANGED <<mounted, availableLabels, errorMessage, created, uuids>>
  /\ UNCHANGED <<handlerVars, scanVars>>

\* createLabelAsync after its await: createLabelMutation has answered with the
\* created label (ok) or with undefined.  A modal that is no longer mounted
\* ignores setSelectedLabels.
CreationCompleted ==
  /\ \E c \in pending, ok \in BOOLEAN :
       LET currentLabels == c.newLabels
           newLabel == NewLabel(c.tempLabel)
           idx == findIndex(currentLabels, c.tempLabel.id)
           labels == IF ok
                       THEN IF idx # 0
                              THEN [currentLabels EXCEPT ![idx] = newLabel]
                              ELSE Append(currentLabels, newLabel)
                       ELSE IF idx # 0 THEN splice(currentLabels, idx)
                                       ELSE currentLabels
       IN  /\ created' = IF ok THEN created \cup {newLabel} ELSE created
           /\ errorMessage' = IF ok THEN errorMessage ELSE "Error creating label"
           /\ IF mounted /\ (ok \/ idx # 0)
                THEN /\ setSelectedLabels(labels)
                     /\ pending' = Detached(pending \ {c})
                ELSE /\ pending' = pending \ {c}
                     /\ UNCHANGED <<selectedLabels, saved>>
  /\ UNCHANGED <<mounted, availableLabels, highlightLastLabel, uuids>>
  /\ UNCHANGED <<handlerVars, scanVars>>

\* onOpenChange(open): await props.save(selectedLabels); props.onOpenChange(open)
OnOpenChange ==
  /\ mounted
  /\ \E open \in BOOLEAN : mounted' = open
  /\ saved' = [labels |-> selectedLabels, by |-> "onOpenChange"]
  /\ UNCHANGED <<selectedLabels, availableLabels, highlightLastLabel, errorMessage,
                 pending, created, uuids>>
  /\ UNCHANGED <<handlerVars, scanVars>>

\* useGetLabelsQuery delivers a created label.
Revalidate ==
  /\ mounted
  /\ \E l \in created :
       /\ findIndex(availableLabels, l.id) = 0
       /\ availableLabels' = Append(availableLabels, l)
  /\ UNCHANGED <<mounted, selectedLabels, highlightLastLabel, errorMessage, pending,
                 created, uuids, saved>>
  /\ UNCHANGED <<handlerVars, scanVars>>

NextLabels ==
  \/ SelectOrCreateLabel
  \/ DeleteLastLabel
  \/ CreationCompleted
  \/ OnOpenChange
  \/ Revalidate

SpecLabels == InitLabels /\ [][NextLabels]_vars

Next ==
  \/ ShouldPreHandle
  \/ PreHandle
  \/ FetchTweet
  \/ Refetch
  \/ AuthorLookup
  \/ Route
  \/ Launch
  \/ NewPage
  \/ Goto
  \/ Evaluate
  \/ Catch
  \/ Finally
  \/ FetchBatch
  \/ FetchThread
  \/ Render

Spec == Init /\ [][Next]_vars

\* ------------------------------------------------------------ what the log holds
\* How many entries of the log are `op`.
Count(op) == Cardinality({k \in 1..Len(log) : log[k].op = op})

\* getTweetIds has been entered and has not yet returned or thrown.
InGetTweetIds == pc \in {"launch", "newPage", "goto", "evaluate", "catch", "finally"}

\* preHandle has put its list of tweets together.
Assembled == pc = "render" \/ (pc = "done" /\ outcome = "returned")

\* ------------------------------------------------------------ claims

\* C1: every browser that getTweetIds launched is closed exactly once by the time
\* getTweetIds has returned or thrown, whichever way it left (the scan returned
\* identifiers, or newPage, goto or the scan threw): outside getTweetIds no
\* browser is open, and close has been called once for each launch.
C1_BrowserClosedOnEveryExit ==
  /\ Count("close") <= Count("launch")
  /\ Count("launch") <= 1
  /\ browser = "open" <=> (Count("launch") = 1 /\ Count("close") = 0)
  /\ ~InGetTweetIds => (browser # "open" /\ Count("close") = Count("launch"))

\* C1 witness: getTweetIds has returned after page.goto threw, and the browser it
\* launched is closed.
C1_Witness ==
  /\ pc = "getTweetsByIds"
  /\ threw = "goto"
  /\ browser = "closed"
  /\ Count("launch") = 1
  /\ Count("close") = 1

\* C2 as stated: in every call of preHandle, whichever way it ends, browser.close
\* is called exactly once.  Stated here for the calls that return a result, the
\* exit path on which it matters most.
C2_CloseOncePerResolution ==
  (pc = "done" /\ outcome = "returned") => Count("close") = 1

\* C2 amended: a call of preHandle calls browser.close exactly once when it
\* launched a browser (the post is older than 7 days and puppeteer.launch
\* succeeded), and never otherwise.
C2_CloseOncePerLaunchedBrowser ==
  pc = "done" =>
    Count("close") = IF route = "stale" /\ error # "launch" THEN 1 ELSE 0

\* C2 witness: a call of preHandle that took the browser path, whose scan threw,
\* has ended with one call of close.
C2_Witness ==
  /\ pc = "done"
  /\ route = "stale"
  /\ threw = "evaluate"
  /\ Count("close") = 1

\* C3: when newPage, goto or the scan throws inside getTweetIds, getTweetIds
\* returns the empty list to getOldTweets and throws nothing: getOldTweets goes on
\* to its batch fetch with no identifiers.
C3_ScanExceptionYieldsEmptyList ==
  threw # "none" =>
    /\ pc \in {"catch", "finally", "getTweetsByIds", "render", "done"}
    /\ pc # "catch" => ret = <<>>
    /\ pc \in {"getTweetsByIds", "render", "done"} => tweetIds = <<>>
    /\ pc \in {"render", "done"} =>
         /\ Count("batch") = 1
         /\ \A k \in 1..Len(log) : log[k].op = "batch" => log[k].ids = <<>>
         /\ error \in {"none", "http"}

\* C3 witness: the scan threw and getTweetIds has returned the empty list.
C3_Witness ==
  /\ threw = "evaluate"
  /\ pc = "getTweetsByIds"
  /\ tweetIds = <<>>

\* C4 as stated: when newPage, goto or the scan threw on the browser path, the
\* call of preHandle does not abort: it ends by returning a result, with no
\* replies in its list.
C4_ScanExceptionStillReturns ==
  (pc = "done" /\ threw # "none") => (outcome = "returned" /\ tweets = <<>>)

\* The ids of the posts of a list of tweets.
IdsOf(ts) == [k \in 1..Len(ts) |-> ts[k].data.id]

\* The place of the first entry of the log that is `op`, or 0.
FirstOf(op) ==
  IF Count(op) = 0 THEN 0
  ELSE CHOOSE k \in 1..Len(log) :
         log[k].op = op /\ \A j \in 1..(k - 1) : log[j].op # op

\* When the post of the URL is a reply, the second request is the fetch of the
\* post named by its conversation id, and it precedes every search, browser launch
\* and batch fetch.
RefetchedBeforeThread ==
  (conversationId # Undefined /\ conversationId # tweetId) =>
    \A k \in 1..Len(log) :
      log[k].op \in {"search", "launch", "batch"} =>
        (k > 2 /\ log[2] = Event("single", <<conversationId>>))

\* C5 as stated: the post of a reply URL is fetched again by its conversation id
\* before any thread fetch, and the first post of the assembled list is the post
\* whose id is the conversation id, on both paths.  Stated here for the lists
\* that hold a post at all.
C5_RootIsFirst ==
  /\ RefetchedBeforeThread
  /\ (Assembled /\ tweets # <<>>) => tweets[1].data.id = conversationId

\* C5 amended: the post of a reply URL is fetched again by its conversation id
\* before any thread fetch; on the search path the first post of the assembled
\* list is the post whose id is the conversation id; on the browser path the list
\* is the posts of the batch response for the scraped identifiers, in the
\* response's order, with no root put before them.
C5_RootIsFirstOnRecentPath ==
  /\ RefetchedBeforeThread
  /\ (Assembled /\ route = "recent") =>
       (tweets # <<>> /\ tweets[1].data.id = conversationId)
  /\ (Assembled /\ route = "stale") =>
       /\ Len(tweets) = Len(response.data)
       /\ \A k \in 1..Len(tweets) : tweets[k].data = response.data[k]
       /\ log[Len(log)] = Event("batch", tweetIds)

\* C5 witness: the URL named a reply, and the list assembled on the search path
\* starts with the post whose id is the conversation id.
C5_Witness ==
  /\ pc = "render"
  /\ route = "recent"
  /\ conversationId # tweetId
  /\ tweets[1].data.id = conversationId

\* C6: what getRecentTweets returned (the assembled list after the root put before
\* it) is the posts of the search response in exactly the reverse order, one
\* tweet per post; a response with result_count 0 gives the empty list and no
\* error.
C6_RecentTweetsAreReversed ==
  (Assembled /\ route = "recent") =>
    LET out == Tail(tweets)
        n == Len(thread.data)
    IN  /\ Len(out) = n
        /\ \A k \in 1..n : out[k].data = thread.data[n + 1 - k]
        /\ thread.meta.result_count = 0 => (out = <<>> /\ error = "none")

\* C6 witness: a search response of three posts has been turned into the list.
C6_Witness ==
  /\ pc = "render"
  /\ route = "recent"
  /\ Len(thread.data) = 3
  /\ IdsOf(Tail(tweets)) = Reverse(IdsOf(getTweetsFromResponse(thread)))

\* How many tweets of the list ts are the post with identifier i.
Occurrences(ts, i) == Cardinality({k \in 1..Len(ts) : ts[k].data.id = i})

\* The search response holds the post with identifier i.
SearchReturned(i) == \E k \in 1..Len(thread.data) : thread.data[k].id = i

\* C7 as stated: on the search path the assembled list is exactly the reversed
\* search result, with nothing put before it.
C7_NothingPrepended ==
  (Assembled /\ route = "recent") => tweets = getRecentTweets(thread)

\* C7 amended: on the search path the assembled list is the already fetched root
\* post followed by the reversed search result, so the root is in the list twice
\* when the search returned it too.
C7_RootPrepended ==
  (Assembled /\ route = "recent") =>
    /\ tweets = <<tweet>> \o getRecentTweets(thread)
    /\ Occurrences(tweets, conversationId) =
         IF SearchReturned(conversationId) THEN 2 ELSE 1

\* C7 witness: the search returned the root, and the assembled list holds it twice.
C7_Witness ==
  /\ pc = "render"
  /\ route = "recent"
  /\ SearchReturned(conversationId)
  /\ Occurrences(tweets, conversationId) = 2

\* The age of the resolved root post at the age test.
Age == Now - tweet.data.created_at

\* C8 as stated: the search path is taken exactly when the age is under 7 days,
\* the browser path exactly when it is 7 days or more.
C8_StaleFromSevenDays ==
  route # "none" =>
    /\ route = "recent" <=> Age < SevenDays
    /\ route = "stale" <=> Age >= SevenDays

\* C8 amended: the search path is taken exactly when the age is 7 days or less,
\* the browser path exactly when it is more than 7 days; a post of exactly 7 days
\* takes the search path.
C8_StaleAfterSevenDays ==
  route # "none" =>
    /\ route = "recent" <=> Age <= SevenDays
    /\ route = "stale" <=> Age > SevenDays

\* C8 witness: a root post of exactly 7 days has taken the search path.
C8_Witness == route = "recent" /\ Age = SevenDays

\* C9: one call of preHandle decides its path once and runs one strategy: the log
\* never holds both a search and a browser launch or batch fetch; each is there at
\* most once; a batch fetch comes only after the browser was launched and closed;
\* and a call that returned a result made exactly the requests of its path.
C9_ExactlyOneStrategy ==
  /\ Count("search") <= 1 /\ Count("launch") <= 1 /\ Count("batch") <= 1
  /\ ~(Count("search") > 0 /\ (Count("launch") > 0 \/ Count("batch") > 0))
  /\ Count("search") > 0 => route = "recent"
  /\ Count("launch") > 0 => route = "stale"
  /\ Count("batch") > 0 =>
       (FirstOf("launch") < FirstOf("close") /\ FirstOf("close") < FirstOf("batch"))
  /\ (pc = "done" /\ route = "recent") =>
       (Count("search") = 1 /\ Count("launch") = 0 /\ Count("batch") = 0)
  /\ (pc = "done" /\ route = "stale") =>
       /\ Count("search") = 0
       /\ Count("launch") = (IF error = "launch" THEN 0 ELSE 1)
       /\ Count("batch") = Count("launch")

\* C9 witness: the browser path failed at its batch fetch, and the call ended
\* without a search.
C9_Witness ==
  /\ pc = "done"
  /\ route = "stale"
  /\ outcome = "thrown"
  /\ Count("batch") = 1
  /\ Count("search") = 0

\* C10: with no bearer token, no request is issued and no browser launched; each
\* of the three fetch functions throws the missing-credential error with no
\* request made; preHandle gets no further than its first fetch and throws; and
\* shouldPreHandle is false for every URL.
C10_NoTokenNoRequest ==
  ~token =>
    /\ log = <<>>
    /\ browser = "none"
    /\ \A i \in Ids :
         \A r \in getTweetById(i) \cup getTweetsByIds(<<i>>) \cup getTweetThread(i) :
           r.requests = <<>> /\ r.status = "throw" /\ r.error = NoTokenError
    /\ pc \in {"shouldPreHandle", "preHandle", "getTweetById", "done"}
    /\ pc = "done" =>
         /\ outcome = "thrown"
         /\ tweetId # Undefined => error = NoTokenError
    /\ should # "true"
    /\ \A u \in Urls : ~shouldPreHandle(u)

\* C10 witness: with no token, preHandle has thrown the missing-credential error
\* at its first fetch, with no request made.
C10_Witness ==
  /\ ~token
  /\ pc = "done"
  /\ error = NoTokenError
  /\ log = <<>>

\* The requests of the three endpoints.
Requests == {"single", "batch", "search"}

\* C11: when a fetch rejects with a transport or HTTP error, preHandle rejects with
\* that same error; the failed request is the last entry of the log (no fetch and
\* no browser launch follows it) and is in the log once (it is not issued again).
C11_FetchErrorPropagates ==
  rejected = "http" =>
    /\ pc = "done"
    /\ outcome = "thrown"
    /\ error = rejected
    /\ log # <<>>
    /\ log[Len(log)].op \in Requests
    /\ Cardinality({k \in 1..Len(log) : log[k] = log[Len(log)]}) = 1

\* C11 witness: the re-fetch of the root failed after the first fetch had
\* succeeded, and preHandle has thrown its error.
C11_Witness ==
  /\ rejected = "http"
  /\ pc = "done"
  /\ error = "http"
  /\ Len(log) = 2
  /\ log[2].op = "single"

\* The scan on its own has returned.
Scanned == scanPc = "done"

\* C12 as stated: for a document of N <time> elements of which M are wrapped in a
\* link with a non-empty trailing segment, the scan returns the first M of their
\* identifiers when M <= 100 and the first 100 when M > 100, whatever N is.
C12_CapOnIdentifiers ==
  Scanned =>
    LET all == LinkIds(timeNodes)
    IN  scanned = SubSeq(all, 1, Min(Len(all), MAX_THREAD_DEPTH))

\* C12 amended: the scan looks at the first 100 <time> elements only and returns,
\* in document order, the identifiers of those of them that are wrapped in a link
\* with a non-empty trailing segment: exactly M when N <= 100, and never more
\* than 100.
C12_CapOnElements ==
  Scanned =>
    LET N == Len(timeNodes)
    IN  /\ scanned = LinkIds(SubSeq(timeNodes, 1, Min(N, MAX_THREAD_DEPTH)))
        /\ N <= MAX_THREAD_DEPTH => Len(scanned) = Len(LinkIds(timeNodes))
        /\ Len(scanned) <= MAX_THREAD_DEPTH

\* C12 witness: a document of more than 100 elements with 100 links, one of them
\* after the 100th element, has been scanned, and 99 identifiers came back.
C12_Witness ==
  /\ Scanned
  /\ Len(timeNodes) > MAX_THREAD_DEPTH
  /\ Len(LinkIds(timeNodes)) = MAX_THREAD_DEPTH
  /\ Len(scanned) = MAX_THREAD_DEPTH - 1

\* preHandle has returned a document.
HasReturned == pc = "done" /\ outcome = "returned"

\* C13: in a returned document every author-supplied text is escaped where it is
\* interpolated: the title made of the author's name, the description made of
\* the root post's text, the text of every post of the body, and the handle and
\* the name of the attribution line.
C13_EveryTextEscaped ==
  HasReturned =>
    /\ content.title = escape(titleForAuthor(author))
    /\ content.description = escape(tweet.data.text)
    /\ \A k \in 1..Len(tweets) :
         content.tweetsContent[k] = escape(tweets[k].data.text)
    /\ content.tweetUrl.username = escape(author.username)
    /\ content.tweetUrl.name = escape(author.name)

\* C14: in every assembled thread, on the Recent path and on the Stale path,
\* every post's conversation id is the id of the resolved root post.
C14_OneConversation ==
  Assembled =>
    \A k \in 1..Len(tweets) : tweets[k].data.conversation_id = tweet.data.id

\* C15: after a call of preHandle that got as far as the author lookup, the
\* fetched root post and every author of its side list have the field values
\* they had when the response was received.
C15_FetchedNeverMutated ==
  (pc = "done" /\ fetched # NoTweet) => tweet = fetched

\* The first author of the side list of the fetched root post, as received.
FirstAuthor == fetched.includes.users[1]

\* C16: whatever the author id of the fetched root post and whatever the ids of
\* its side list, the author lookup finds an author, that author is the first
\* record of the side list (with the post's author id written over its id), and
\* the title, the Open Graph image and the attribution line of the returned
\* document are made from that first record.
C16_AuthorIsFirstOfSideList ==
  /\ error # "TypeError"
  /\ author # NoUser =>
       author = [FirstAuthor EXCEPT !.id = fetched.data.author_id]
  /\ HasReturned =>
       /\ content.title = escape(titleForAuthor(FirstAuthor))
       /\ content.authorImage = authorImage(FirstAuthor)
       /\ content.tweetUrl =
            [username |-> FirstAuthor.username, name |-> FirstAuthor.name]

\* C16 witness: a document has been returned for a root post whose author is the
\* second record of the side list, not the first.
C16_Witness ==
  /\ HasReturned
  /\ Len(fetched.includes.users) > 1
  /\ FirstAuthor.id # fetched.data.author_id
  /\ fetched.includes.users[2].id = fetched.data.author_id
  /\ content.tweetUrl.name = FirstAuthor.name

\* The call c of createLabelAsync completes in this step.
Completes(c) == \A d \in pending' : d.tempLabel # c.tempLabel

\* C17: when a label creation completes in the open modal, the selection of that
\* moment, with every change made since the creation started, is kept: the
\* temporary label alone is replaced by the created label or removed, and a
\* selection that no longer holds the temporary label is left as it is.
C17_CompletionKeepsOtherChanges ==
  [][\A c \in pending :
       (mounted /\ Completes(c)) =>
         LET idx == findIndex(selectedLabels, c.tempLabel.id)
         IN  IF idx = 0
               THEN selectedLabels' = selectedLabels
               ELSE \/ selectedLabels' =
                         [selectedLabels EXCEPT ![idx] = NewLabel(c.tempLabel)]
                    \/ selectedLabels' = splice(selectedLabels, idx)]_vars

\* C18: in the open modal, once no label creation is pending the selection holds
\* no temporary label and it is the list last passed to props.save.
C18_SettledSelectionIsSaved ==
  (mounted /\ pending = {}) =>
    /\ ~containsTemporaryLabel(selectedLabels)
    /\ saved.labels = selectedLabels

\* C19: props.save is never called with a list that holds a temporary label, by
\* the save effect or by onOpenChange.
C19_NeverSavesTemporaryLabel == ~containsTemporaryLabel(saved.labels)

\* C20: the selection never holds two labels whose names are equal ignoring case.
C20_NoDuplicateNames ==
  \A j, k \in 1..Len(selectedLabels) :
    j # k => toLowerCase(selectedLabels[j].name) # toLowerCase(selectedLabels[k].name)

====
